---- MODULE Spec2Model ----
(***************************************************************************)
(* A model of the file-upload server of sarala1000/node.js-server.         *)
(*                                                                         *)
(* Two generations of the Express server are modelled over one state:      *)
(*   Spec       backend/server.js   metadata in data/items.json,           *)
(*                                  bytes in uploads/ (multer disk storage)*)
(*   SpecMongo  unnamed/part_002    metadata in MongoDB through mongoose,  *)
(*                                  bytes in uploads/ (multer disk storage)*)
(*                                                                         *)
(* Node runs one callback at a time. A handler without an await is one     *)
(* atomic action. A handler with awaits is cut at each await: the database *)
(* executes the awaited command atomically, and the handler's synchronous  *)
(* code up to its next await is taken in the same step, since that code    *)
(* reads nothing of the database and only removes files.                   *)
(***************************************************************************)
EXTENDS Integers, Sequences, FiniteSets, TLC

\* ------------------------------------------------------------------ bounds
MaxUploads == 2      \* upload requests over a run
MaxDeletes == 1      \* delete requests over a run
MaxClock   == 1      \* Date.now() takes the values 0..MaxClock
MaxReads   == 1      \* GET requests over a run
MaxLists   == 2      \* GET /api/files requests over a run of the MongoDB variant
MaxAttempts == 2     \* uploads and replacements the user of the frontend starts
MaxTimers  == 1      \* status messages shown for invalid input, still to be cleared

\* ------------------------------------------------------------------ inputs
\* JavaScript's undefined: a multipart field the client did not send.
Undefined == "undefined"

\* The uploaded bytes: "hello" and the empty file.
Payloads == {<<104, 101, 108, 108, 111>>, <<>>}

\* What a client sends with the bytes: the file part's name and Content-Type
\* (a browser derives the type from the name) and the description field.
ClientForms ==
    {[originalname |-> "a.txt", mimetype |-> "text/plain", description |-> "v1"],
     [originalname |-> "b.png", mimetype |-> "image/png",  description |-> ""],
     [originalname |-> "b.png", mimetype |-> "image/png",  description |-> Undefined]}

\* req.body.replace: what the client's FormData sends (replace.toString()),
\* or nothing when another client leaves the field out.
ReplaceFlags == {"false", "true", Undefined}

\* ------------------------------------------------------------------ state
VARIABLES
    now,        \* Date.now(), in milliseconds
    index,      \* the metadata: items.json's array / the File collection
    disk,       \* the uploads directory: path -> bytes
    reqs,       \* every request so far, in flight or answered
    issued,     \* how many file names multer has generated
    nextOid,    \* the ObjectId generator's counter
    deleted,    \* history: the ids of the records deleted so far
    ui          \* the upload component of the frontend: its fields and timers

vars == <<now, index, disk, reqs, issued, nextOid, deleted, ui>>

NoPath == 0
NoBuffer == <<-1>>

\* ------------------------------------------------------------------ helpers
\* a || b of JavaScript, on strings and undefined.
JsOr(a, b) == IF a \in {Undefined, ""} THEN b ELSE a

\* Mutant: the fingerprint is the length of the content.
generateFileHashWeak(fileBuffer) == <<"len", Len(fileBuffer)>>

\* crypto.createHash('sha256').update(buf).digest('hex'): SHA-256 is modelled
\* as injective on the payloads (collision resistance), not computed.
generateFileHash(fileBuffer) == <<"sha256", fileBuffer>>

\* Mutant: the lookup compares a field that never equals a hash, so it finds nothing.
findDuplicateIndexNever(data, fileHash) == 0

\* data.findIndex(item => item.hash === fileHash), 1-based; 0 for JavaScript's -1.
findDuplicateIndex(data, fileHash) ==
    IF \E i \in 1..Len(data) : data[i].hash = fileHash
    THEN CHOOSE i \in 1..Len(data) :
            /\ data[i].hash = fileHash
            /\ \A j \in 1..(i - 1) : data[j].hash # fileHash
    ELSE 0

\* data.findIndex(item => item.id === id), 1-based; 0 for JavaScript's -1.
findIdIndex(data, id) ==
    IF \E i \in 1..Len(data) : data[i].id = id
    THEN CHOOSE i \in 1..Len(data) :
            /\ data[i].id = id
            /\ \A j \in 1..(i - 1) : data[j].id # id
    ELSE 0

\* The ids of the live records of an index.
LiveIds(data) == {data[i].id : i \in 1..Len(data)}

\* Mutant: the removal cuts the array at i, dropping what follows too.
SpliceTail(data, i) == SubSeq(data, 1, i - 1)

\* data.splice(i, 1)
Splice(data, i) == [j \in 1..(Len(data) - 1) |-> IF j < i THEN data[j] ELSE data[j + 1]]

\* Mutant: the removal does nothing, the file stays.
removeSyncNothing(d, p) == d

\* fs.removeSync(p): removing a missing path is not an error.
removeSync(d, p) == [q \in (DOMAIN d) \ {p} |-> d[q]]

\* fs.writeFile / multer's disk write of bytes b at path p.
writeFile(d, p, b) == [q \in (DOMAIN d) \cup {p} |-> IF q = p THEN b ELSE d[q]]

\* 'file-' + Date.now() + '-' + Math.round(Math.random() * 1E9) + ext: the
\* generated names are taken to be pairwise distinct (a repeat needs the same
\* millisecond and the same draw out of 1E9), so a name is modelled by its
\* rank among the names generated: the k-th upload is stored as name k.
uniqueSuffix(used) == used + 1

\* Mutant: any flag but 'false' counts as a request to replace.
shouldReplaceLoose(replace) == replace # "false"

\* const shouldReplace = req.body.replace === 'true'
shouldReplace(replace) == replace = "true"

\* Mutant: the replacement forgets to point the record at the new file.
ReplacedItemKeepsOldPath(oldItem, q, fileBuffer, t) ==
    [oldItem EXCEPT
        !.filename = q.originalname,
        !.size = Len(fileBuffer),
        !.mimetype = q.mimetype,
        !.uploadDate = t,
        !.description = JsOr(q.description, oldItem.description)]

\* Mutant: the replacement writes req.body.description as it came.
ReplacedItemTakesDescription(oldItem, q, fileBuffer, t) ==
    [oldItem EXCEPT
        !.filename = q.originalname,
        !.path = q.path,
        !.size = Len(fileBuffer),
        !.mimetype = q.mimetype,
        !.uploadDate = t,
        !.description = q.description]

\* The record a replacement writes over oldItem: { ...oldItem, filename, ... }
\* (savedFilename is the last component of path and is not kept apart).
ReplacedItem(oldItem, q, fileBuffer, t) ==
    [oldItem EXCEPT
        !.filename = q.originalname,
        !.path = q.path,
        !.size = Len(fileBuffer),
        !.mimetype = q.mimetype,
        !.uploadDate = t,
        !.description = JsOr(q.description, oldItem.description)]

\* The record of a new upload; id is Date.now().toString() in server.js and
\* the document's ObjectId in part_002.
NewItem(id, q, fileBuffer, fileHash, t) ==
    [id |-> id,
     filename |-> q.originalname,
     path |-> q.path,
     size |-> Len(fileBuffer),
     mimetype |-> q.mimetype,
     hash |-> fileHash,
     uploadDate |-> t,
     description |-> JsOr(q.description, "")]

\* Mutant: the 409 body carries the stored record.
DuplicateItemExisting(existingItem) == {existingItem}

\* res.status(409).json({ error: 'File already exists', message: ... }):
\* the body carries no item.
DuplicateItem(existingItem) == {}

Uploads == {r \in 1..Len(reqs) : reqs[r].kind = "upload"}
Deletes == {r \in 1..Len(reqs) : reqs[r].kind = "delete"}
Reads == {r \in 1..Len(reqs) : reqs[r].kind \in {"get", "list"}}

\* A request record: the inputs, the handler's locals, and the response.
NewRequest(kind, pc) ==
    [kind |-> kind, pc |-> pc,
     buffer |-> NoBuffer, originalname |-> "", mimetype |-> "",
     replace |-> Undefined, description |-> Undefined,
     path |-> NoPath, id |-> -1,
     existing |-> {}, doc |-> {},
     status |-> 0, item |-> {}, list |-> <<>>,
     size |-> -1, error |-> ""]

Respond(r, q, status, item) ==
    [reqs EXCEPT ![r] = [q EXCEPT !.pc = "done", !.status = status, !.item = item]]

\* ------------------------------------------------- the upload component
\* selectedFile: File | null = null
NoFile == [name |-> "null", size |-> 0]

\* The fields of FileUploadComponent as constructed (isDragging, which only
\* the drag events read and write, is left out), and with them the state of
\* its asynchronous methods: which method is suspended at its await (pc),
\* the requests handed to FileService.uploadFile so far (sent), the response
\* last received, the setInterval timers that have not been cleared
\* (intervals), the setTimeout callbacks that have not run yet (resetTimers
\* of uploadFile / replaceFile, statusTimers of showStatus), and the number
\* of attempts started.
UiInit ==
    [selectedFile |-> NoFile,
     description |-> "",
     isUploading |-> FALSE,
     uploadProgress |-> 0,
     statusMessage |-> "",
     statusType |-> "",
     showDuplicateDialog |-> FALSE,
     duplicateFileName |-> "",
     pc |-> "idle",
     sent |-> <<>>,
     response |-> [status |-> -1, message |-> "", error |-> ""],
     intervals |-> 0,
     resetTimers |-> 0,
     statusTimers |-> 0,
     attempts |-> 0]

\* ------------------------------------------------------------------ Init
Init ==
    /\ now = 0
    /\ index = <<>>
    /\ disk = <<>>
    /\ reqs = <<>>
    /\ issued = 0
    /\ nextOid = 1
    /\ deleted = {}
    /\ ui = UiInit

\* ------------------------------------------------------------------ actions
\* Date.now() where a handler reads it: the clock never runs backwards, and
\* any number of milliseconds may have passed since it was last read.
ClockValues == now..MaxClock

\* upload.single('file'): multer parses the multipart body, names the file
\* and writes it under uploads/. The handler runs afterwards; the text fields
\* and the file part's name and type are read by the handler alone, so their
\* values are drawn where the handler starts (WithBody).
MulterStage ==
    /\ Cardinality(Uploads) < MaxUploads
    /\ \E b \in Payloads :
         LET p == uniqueSuffix(issued)
             q == [NewRequest("upload", "staged") EXCEPT !.buffer = b, !.path = p]
         IN /\ reqs' = Append(reqs, q)
            /\ disk' = writeFile(disk, p, b)
            /\ issued' = issued + 1
    /\ UNCHANGED <<now, index, nextOid, deleted, ui>>

\* req.file.originalname, req.file.mimetype and req.body of a staged upload.
WithBody(q, f, rp) ==
    [q EXCEPT !.originalname = f.originalname, !.mimetype = f.mimetype,
              !.description = f.description, !.replace = rp]

\* The body of app.post('/api/upload') of backend/server.js for the request
\* q = (req.file, req.body) of upload r, with the clock reading t.
HandleUploadFile(r, q, t) ==
    LET present == q.path \in DOMAIN disk
        fileBuffer == disk[q.path]
        fileHash == generateFileHash(fileBuffer)
        existingData == index
        duplicateIndex == findDuplicateIndex(existingData, fileHash)
    IN /\ now' = t
       /\ IF ~present
          THEN \* readFileSync throws: the catch answers 500
               /\ reqs' = Respond(r, q, 500, {})
               /\ UNCHANGED <<index, disk, deleted>>
          ELSE IF duplicateIndex # 0
          THEN IF shouldReplace(q.replace)
               THEN LET oldItem == existingData[duplicateIndex]
                        newItem == ReplacedItem(oldItem, q, fileBuffer, t)
                    IN /\ disk' = removeSync(disk, oldItem.path)
                       /\ index' = [existingData EXCEPT ![duplicateIndex] = newItem]
                       /\ reqs' = Respond(r, q, 200, {newItem})
                       /\ UNCHANGED deleted
               ELSE /\ disk' = removeSync(disk, q.path)
                    /\ reqs' = Respond(r, q, 409, DuplicateItem(existingData[duplicateIndex]))
                    /\ UNCHANGED <<index, deleted>>
          ELSE LET newItem == NewItem(t, q, fileBuffer, fileHash, t)
               IN /\ index' = Append(existingData, newItem)
                  /\ reqs' = Respond(r, q, 201, {newItem})
                  /\ UNCHANGED <<disk, deleted>>

\* app.post('/api/upload') of backend/server.js: no await, one atomic step.
UploadHandlerFile(r) ==
    /\ reqs[r].kind = "upload" /\ reqs[r].pc = "staged"
    /\ \E f \in ClientForms, rp \in ReplaceFlags, t \in ClockValues :
         HandleUploadFile(r, WithBody(reqs[r], f, rp), t)
    /\ UNCHANGED <<issued, nextOid, ui>>

\* app.delete('/api/files/:id') of backend/server.js: no await, one atomic step.
DeleteHandlerFile ==
    /\ Cardinality(Deletes) < MaxDeletes
    /\ \E id \in {index[i].id : i \in 1..Len(index)} \cup deleted :
         LET data == index
             itemIndex == findIdIndex(data, id)
             q == [NewRequest("delete", "start") EXCEPT !.id = id]
             r == Len(reqs) + 1
         IN IF itemIndex = 0
            THEN /\ reqs' = [Append(reqs, q) EXCEPT ![r].pc = "done", ![r].status = 404]
                 /\ UNCHANGED <<index, disk, deleted>>
            ELSE /\ disk' = removeSync(disk, data[itemIndex].path)
                 /\ index' = Splice(data, itemIndex)
                 /\ deleted' = deleted \cup {id}
                 /\ reqs' = [Append(reqs, q) EXCEPT ![r].pc = "done", ![r].status = 200]
    /\ UNCHANGED <<now, issued, nextOid, ui>>

\* ------------------------------------------------------ MongoDB variant
\* File.findOne({ hash: fileHash }): the first document with that hash.
findOne(coll, fileHash) ==
    IF findDuplicateIndex(coll, fileHash) = 0 THEN {}
    ELSE {coll[findDuplicateIndex(coll, fileHash)]}

\* File.findById(id)
findById(coll, id) ==
    IF findIdIndex(coll, id) = 0 THEN {} ELSE {coll[findIdIndex(coll, id)]}

\* The fields of a File document (models/File.js), _id as id.
DocFields == {"id", "filename", "path", "size", "mimetype", "hash",
              "uploadDate", "description"}

\* doc.save() of a loaded document: mongoose $sets the paths whose value
\* differs from the loaded one.
ApplyModified(stored, loaded, local) ==
    [f \in DocFields |-> IF local[f] # loaded[f] THEN local[f] ELSE stored[f]]

\* Mutant: the schema without unique: true, every insert goes through.
DuplicateKeyNoIndex(coll, doc) == FALSE

\* The unique index on hash (models/File.js: unique: true): an insert of a
\* hash the collection holds fails with E11000.
DuplicateKey(coll, doc) == \E i \in 1..Len(coll) : coll[i].hash = doc.hash

\* app.post('/api/upload') of part_002, from its start to `await ...save()`:
\* the hash, File.findOne, and the branch taken on its result.
UploadFindOne(r) ==
    /\ reqs[r].kind = "upload" /\ reqs[r].pc = "staged"
    /\ \E f \in ClientForms, rp \in ReplaceFlags, t \in ClockValues :
       LET q == WithBody(reqs[r], f, rp)
           present == q.path \in DOMAIN disk
           fileBuffer == disk[q.path]
           fileHash == generateFileHash(fileBuffer)
           existingFile == findOne(index, fileHash)
       IN /\ now' = t
          /\ IF ~present
             THEN \* readFileSync throws; the catch finds no file to clean up
                  /\ reqs' = Respond(r, q, 500, {})
                  /\ UNCHANGED <<disk, nextOid>>
             ELSE IF existingFile # {}
             THEN IF shouldReplace(q.replace)
                  THEN LET old == CHOOSE e \in existingFile : TRUE
                           local == ReplacedItem(old, q, fileBuffer, t)
                       IN /\ disk' = removeSync(disk, old.path)
                          /\ reqs' = [reqs EXCEPT ![r] = [q EXCEPT !.pc = "saving",
                                                                   !.existing = existingFile,
                                                                   !.doc = {local}]]
                          /\ UNCHANGED nextOid
                  ELSE /\ disk' = removeSync(disk, q.path)
                       /\ reqs' = Respond(r, q, 409, DuplicateItem(CHOOSE e \in existingFile : TRUE))
                       /\ UNCHANGED nextOid
             ELSE LET newFile == NewItem(nextOid, q, fileBuffer, fileHash, t)
                  IN /\ nextOid' = nextOid + 1
                     /\ reqs' = [reqs EXCEPT ![r] = [q EXCEPT !.pc = "saving",
                                                              !.doc = {newFile}]]
                     /\ UNCHANGED disk
    /\ UNCHANGED <<index, issued, deleted, ui>>

\* `await newFile.save()` / `await existingFile.save()` of part_002 and what
\* follows it: the response, or the catch block's cleanup and 500.
UploadSave(r) ==
    /\ reqs[r].kind = "upload" /\ reqs[r].pc = "saving"
    /\ LET q == reqs[r]
           local == CHOOSE d \in q.doc : TRUE
           at == findIdIndex(index, local.id)
       IN IF q.existing = {}
          THEN \* a new document: insertOne
               IF DuplicateKey(index, local)
               THEN /\ disk' = removeSync(disk, q.path)
                    /\ reqs' = Respond(r, q, 500, {})
                    /\ UNCHANGED index
               ELSE /\ index' = Append(index, local)
                    /\ reqs' = Respond(r, q, 201, {local})
                    /\ UNCHANGED disk
          ELSE \* a loaded document: updateOne({_id}, {$set: modified paths})
               LET loaded == CHOOSE e \in q.existing : TRUE
               IN IF local = loaded
                  THEN \* nothing modified: save() sends no command
                       /\ reqs' = Respond(r, q, 200, {local})
                       /\ UNCHANGED <<index, disk>>
                  ELSE IF at = 0
                  THEN \* DocumentNotFoundError
                       /\ disk' = removeSync(disk, q.path)
                       /\ reqs' = Respond(r, q, 500, {})
                       /\ UNCHANGED index
                  ELSE /\ index' = [index EXCEPT
                                      ![at] = ApplyModified(index[at], loaded, local)]
                       /\ reqs' = Respond(r, q, 200, {local})
                       /\ UNCHANGED disk
    /\ UNCHANGED <<now, issued, nextOid, deleted, ui>>

\* app.delete('/api/files/:id') of part_002 up to `await findByIdAndDelete`.
DeleteFindById ==
    /\ Cardinality(Deletes) < MaxDeletes
    /\ \E id \in {index[i].id : i \in 1..Len(index)} \cup deleted :
         LET file == findById(index, id)
             q == [NewRequest("delete", "start") EXCEPT !.id = id]
             r == Len(reqs) + 1
         IN IF file = {}
            THEN /\ reqs' = [Append(reqs, q) EXCEPT ![r].pc = "done", ![r].status = 404]
                 /\ UNCHANGED disk
            ELSE /\ disk' = removeSync(disk, (CHOOSE f \in file : TRUE).path)
                 /\ reqs' = [Append(reqs, q) EXCEPT ![r].pc = "deleting",
                                                   ![r].existing = file]
    /\ UNCHANGED <<now, index, issued, nextOid, deleted, ui>>

\* `await File.findByIdAndDelete(req.params.id)` of part_002 and the response.
DeleteFindByIdAndDelete(r) ==
    /\ reqs[r].kind = "delete" /\ reqs[r].pc = "deleting"
    /\ LET at == findIdIndex(index, reqs[r].id)
       IN /\ index' = IF at = 0 THEN index ELSE Splice(index, at)
          /\ deleted' = IF at = 0 THEN deleted ELSE deleted \cup {reqs[r].id}
          /\ reqs' = Respond(r, reqs[r], 200, {})
    /\ UNCHANGED <<now, disk, issued, nextOid, ui>>

Next ==
    \/ MulterStage
    \/ \E r \in 1..Len(reqs) : UploadHandlerFile(r)
    \/ DeleteHandlerFile

Spec == Init /\ [][Next]_vars

NextMongo ==
    \/ MulterStage
    \/ \E r \in 1..Len(reqs) : UploadFindOne(r)
    \/ \E r \in 1..Len(reqs) : UploadSave(r)
    \/ DeleteFindById
    \/ \E r \in 1..Len(reqs) : DeleteFindByIdAndDelete(r)

SpecMongo == Init /\ [][NextMongo]_vars

\* ------------------------------------------- the rest of the file-based API
\* limits: { fileSize: 10 * 1024 * 1024 }
fileSize == 10 * 1024 * 1024

\* The lengths of the uploads that are over the limit (their bytes are not
\* spelled out).
OversizeLengths == {fileSize + 1}

\* multer/busboy stops a file part once it has read more than fileSize bytes.
withinLimit(n) == n <= fileSize

\* An id no record was ever given: the clock never reads it.
UnknownId == MaxClock + 1

\* req.params.id: whatever the caller puts in the URL.
CallerIds == {index[i].id : i \in 1..Len(index)} \cup deleted \cup {UnknownId}

\* data.find(item => item.id === req.params.id): the first match, or none.
find(data, id) == IF findIdIndex(data, id) = 0 THEN {} ELSE {data[findIdIndex(data, id)]}

\* An answered request that was never staged.
Answer(kind, id, status, item, list) ==
    Append(reqs, [NewRequest(kind, "done") EXCEPT
                     !.id = id, !.status = status, !.item = item, !.list = list])

\* app.get('/api/files/:id') of backend/server.js.
GetHandlerFile ==
    /\ Cardinality(Reads) < MaxReads
    /\ \E id \in CallerIds :
         LET data == index
             item == find(data, id)
         IN reqs' = IF item = {} THEN Answer("get", id, 404, {}, <<>>)
                                 ELSE Answer("get", id, 200, item, <<>>)
    /\ UNCHANGED <<now, index, disk, issued, nextOid, deleted, ui>>

\* app.get('/api/files') of backend/server.js: res.json(loadData()).
ListHandlerFile ==
    /\ Cardinality(Reads) < MaxReads
    /\ reqs' = Answer("list", -1, 200, {}, index)
    /\ UNCHANGED <<now, index, disk, issued, nextOid, deleted, ui>>

\* POST /api/upload without a file part: upload.single('file') leaves
\* req.file undefined and the handler answers 400 at its first line.
UploadNoFile ==
    /\ Cardinality(Uploads) < MaxUploads
    /\ reqs' = [Answer("upload", -1, 400, {}, <<>>) EXCEPT
                   ![Len(reqs) + 1].error = "No file uploaded"]
    /\ UNCHANGED <<now, index, disk, issued, nextOid, deleted, ui>>

\* Mutant: multer leaves on disk what it wrote of the oversize file.
MulterLimitKeepsFile ==
    /\ Cardinality(Uploads) < MaxUploads
    /\ \E n \in OversizeLengths :
         /\ ~withinLimit(n)
         /\ reqs' = [Answer("upload", -1, 500, {}, <<>>) EXCEPT
                        ![Len(reqs) + 1].size = n,
                        ![Len(reqs) + 1].error = "LIMIT_FILE_SIZE"]
    /\ disk' = writeFile(disk, uniqueSuffix(issued), <<>>)
    /\ issued' = issued + 1
    /\ UNCHANGED <<now, index, nextOid, deleted, ui>>

\* POST /api/upload with a file part over the limit: multer removes what it
\* wrote and passes MulterError LIMIT_FILE_SIZE to next(); the route handler
\* never runs, and with no error middleware Express answers 500.
MulterLimit ==
    /\ Cardinality(Uploads) < MaxUploads
    /\ \E n \in OversizeLengths :
         /\ ~withinLimit(n)
         /\ reqs' = [Answer("upload", -1, 500, {}, <<>>) EXCEPT
                        ![Len(reqs) + 1].size = n,
                        ![Len(reqs) + 1].error = "LIMIT_FILE_SIZE"]
    /\ UNCHANGED <<now, index, disk, issued, nextOid, deleted, ui>>

NextApi ==
    \/ MulterStage
    \/ \E r \in 1..Len(reqs) : UploadHandlerFile(r)
    \/ DeleteHandlerFile
    \/ GetHandlerFile
    \/ ListHandlerFile
    \/ UploadNoFile
    \/ MulterLimit

SpecApi == Init /\ [][NextApi]_vars

\* ------------------------------------------- the rest of the MongoDB API
\* req.params.id that is not the 24 hex digits of an ObjectId ('abc'); the
\* ObjectIds themselves are the numbers from 1.
MalformedId == 0

\* mongoose casts the argument of findById / findByIdAndDelete to ObjectId
\* and rejects with CastError when it cannot.
isValidObjectId(id) == id >= 1

\* req.params.id: a live or deleted document's id, a well-formed id no
\* document has, or a malformed one.
CallerIdsMongo == LiveIds(index) \cup deleted \cup {nextOid, MalformedId}

\* app.get('/api/files/:id') of part_002: await File.findById, and the catch.
GetFindById ==
    /\ Cardinality(Reads) < MaxReads
    /\ \E id \in CallerIdsMongo :
         reqs' = IF ~isValidObjectId(id)
                 THEN Answer("get", id, 500, {}, <<>>)
                 ELSE IF findById(index, id) = {}
                 THEN Answer("get", id, 404, {}, <<>>)
                 ELSE Answer("get", id, 200, findById(index, id), <<>>)
    /\ UNCHANGED <<now, index, disk, issued, nextOid, deleted, ui>>

\* app.delete('/api/files/:id') of part_002 with an id that cannot be cast:
\* File.findById rejects and the catch answers 500.
DeleteCastError ==
    /\ Cardinality(Deletes) < MaxDeletes
    /\ ~isValidObjectId(MalformedId)
    /\ reqs' = Answer("delete", MalformedId, 500, {}, <<>>)
    /\ UNCHANGED <<now, index, disk, issued, nextOid, deleted, ui>>

NextMongoApi ==
    \/ MulterStage
    \/ \E r \in 1..Len(reqs) : UploadFindOne(r)
    \/ \E r \in 1..Len(reqs) : UploadSave(r)
    \/ DeleteFindById
    \/ \E r \in 1..Len(reqs) : DeleteFindByIdAndDelete(r)
    \/ GetFindById
    \/ DeleteCastError

SpecMongoApi == Init /\ [][NextMongoApi]_vars

\* ------------------------------------------------- crashes (file variant)
\* The process dies: every request in flight is lost without an answer. What
\* is on disk (uploads/, items.json) stays, and the restarted server goes on
\* serving new requests.
Kill(rq) ==
    [i \in DOMAIN rq |->
        IF rq[i].status = 0 THEN [rq[i] EXCEPT !.pc = "crashed"] ELSE rq[i]]

\* The process dies while the handler of upload r runs: before its first
\* write, or, in the replace branch, between fs.removeSync(oldItem.path) and
\* saveData(existingData).
CrashInUpload(r) ==
    /\ reqs[r].kind = "upload" /\ reqs[r].pc = "staged"
    /\ \E rp \in ReplaceFlags :
         LET q == [reqs[r] EXCEPT !.replace = rp]
             fileHash == generateFileHash(disk[q.path])
             duplicateIndex == findDuplicateIndex(index, fileHash)
         IN /\ q.path \in DOMAIN disk
            /\ disk' = IF duplicateIndex # 0 /\ shouldReplace(q.replace)
                       THEN removeSync(disk, index[duplicateIndex].path)
                       ELSE disk
            /\ reqs' = Kill([reqs EXCEPT ![r] = q])
    /\ UNCHANGED <<now, index, issued, nextOid, deleted, ui>>

\* The process dies inside the delete handler, between fs.removeSync(item.path)
\* and saveData(data).
CrashInDelete ==
    /\ Cardinality(Deletes) < MaxDeletes
    /\ \E id \in LiveIds(index) :
         LET data == index
             itemIndex == findIdIndex(data, id)
             q == [NewRequest("delete", "start") EXCEPT !.id = id]
         IN /\ disk' = removeSync(disk, data[itemIndex].path)
            /\ reqs' = Kill(Append(reqs, q))
    /\ UNCHANGED <<now, index, issued, nextOid, deleted, ui>>

NextCrash ==
    \/ MulterStage
    \/ \E r \in 1..Len(reqs) : UploadHandlerFile(r)
    \/ DeleteHandlerFile
    \/ GetHandlerFile
    \/ \E r \in 1..Len(reqs) : CrashInUpload(r)
    \/ CrashInDelete

SpecCrash == Init /\ [][NextCrash]_vars

\* ------------------------------------------- multer's file names as drawn
\* Math.round(Math.random() * 1E9): the two ends of its range.
RandomDraws == {0, 1000000000}

\* path.extname(file.originalname), on the names the clients send.
extname(originalname) == IF originalname = "a.txt" THEN ".txt" ELSE ".png"

\* file.fieldname + '-' + Date.now() + '-' + Math.round(Math.random() * 1E9)
\*   + path.extname(file.originalname), under uploads/.
filename(t, rnd, ext) == <<"file", t, rnd, ext>>

\* upload.single('file') with the name computed as the code computes it.
\* The disk storage opens the path for writing, so a name that is in use is
\* written over. The file part's name decides the extension, so the form is
\* drawn here.
MulterStageNamed ==
    /\ Cardinality(Uploads) < MaxUploads
    /\ \E b \in Payloads, f \in ClientForms, t \in ClockValues, rnd \in RandomDraws :
         LET p == filename(t, rnd, extname(f.originalname))
             q == [NewRequest("upload", "staged") EXCEPT
                      !.buffer = b, !.path = p, !.originalname = f.originalname,
                      !.mimetype = f.mimetype, !.description = f.description]
         IN /\ now' = t
            /\ reqs' = Append(reqs, q)
            /\ disk' = writeFile(disk, p, b)
            /\ issued' = issued + 1
    /\ UNCHANGED <<index, nextOid, deleted, ui>>

\* app.post('/api/upload') of backend/server.js on an upload staged so.
UploadHandlerNamed(r) ==
    /\ reqs[r].kind = "upload" /\ reqs[r].pc = "staged"
    /\ \E rp \in ReplaceFlags, t \in ClockValues :
         HandleUploadFile(r, [reqs[r] EXCEPT !.replace = rp], t)
    /\ UNCHANGED <<issued, nextOid, ui>>

NextNamed ==
    \/ MulterStageNamed
    \/ \E r \in 1..Len(reqs) : UploadHandlerNamed(r)
    \/ DeleteHandlerFile

SpecNamed == Init /\ [][NextNamed]_vars

\* ------------------------------------------- listing (MongoDB variant)
Lists == {r \in 1..Len(reqs) : reqs[r].kind = "list"}

\* File.find().sort({ uploadDate: -1 }): the documents, newest first. The
\* sort has one key, and MongoDB does not fix the order in which it returns
\* documents whose key values are equal: every arrangement that descends in
\* uploadDate is a result the query may give.
sortByUploadDate(coll) ==
    {s \in [1..Len(coll) -> {coll[i] : i \in 1..Len(coll)}] :
        /\ \A i \in 1..Len(coll) : \E j \in 1..Len(coll) : s[j] = coll[i]
        /\ \A i, j \in 1..Len(coll) : i < j => s[i].uploadDate >= s[j].uploadDate}

\* app.get('/api/files') of part_002: await File.find().sort(...), res.json(files).
ListFind ==
    /\ Cardinality(Lists) < MaxLists
    /\ \E files \in sortByUploadDate(index) :
         reqs' = Answer("list", -1, 200, {}, files)
    /\ UNCHANGED <<now, index, disk, issued, nextOid, deleted, ui>>

NextMongoList ==
    \/ MulterStage
    \/ \E r \in 1..Len(reqs) : UploadFindOne(r)
    \/ \E r \in 1..Len(reqs) : UploadSave(r)
    \/ DeleteFindById
    \/ \E r \in 1..Len(reqs) : DeleteFindByIdAndDelete(r)
    \/ ListFind

SpecMongoList == Init /\ [][NextMongoList]_vars

\* ------------------------------------------- bytes in MongoDB (part_003)
\* The fields of a File document of part_003 (its schema keeps the bytes in
\* the document: data: Buffer), _id as id.
InlineFields == {"id", "filename", "originalName", "size", "mimetype", "data",
                 "hash", "uploadDate", "description"}

\* new File({ filename, originalName, size, mimetype, data, hash, description })
NewFileInline(id, q, fileHash, t) ==
    [id |-> id,
     filename |-> q.originalname,
     originalName |-> q.originalname,
     size |-> Len(q.buffer),
     mimetype |-> q.mimetype,
     data |-> q.buffer,
     hash |-> fileHash,
     uploadDate |-> t,
     description |-> JsOr(q.description, "")]

\* The assignments of the replace branch to the loaded document.
ReplacedFileInline(existingFile, q, t) ==
    [existingFile EXCEPT
        !.filename = q.originalname,
        !.originalName = q.originalname,
        !.size = Len(q.buffer),
        !.mimetype = q.mimetype,
        !.data = q.buffer,
        !.uploadDate = t,
        !.description = JsOr(q.description, existingFile.description)]

\* doc.save() of a loaded document, on the fields of part_003.
ApplyModifiedInline(stored, loaded, local) ==
    [f \in InlineFields |-> IF local[f] # loaded[f] THEN local[f] ELSE stored[f]]

\* data: { type: Buffer, required: true }: mongoose's required validator
\* rejects a Buffer of length 0 with ValidationError.
checkRequired(doc) == Len(doc.data) > 0

\* upload.single('file') with multer.memoryStorage(): the bytes are kept in
\* req.file.buffer and nothing is written to disk.
MulterMemory ==
    /\ Cardinality(Uploads) < MaxUploads
    /\ \E b \in Payloads :
         reqs' = Append(reqs, [NewRequest("upload", "staged") EXCEPT !.buffer = b])
    /\ UNCHANGED <<now, index, disk, issued, nextOid, deleted, ui>>

\* app.post('/api/upload') of part_003, from its start to `await ...save()`.
UploadInlineFindOne(r) ==
    /\ reqs[r].kind = "upload" /\ reqs[r].pc = "staged"
    /\ \E f \in ClientForms, rp \in ReplaceFlags, t \in ClockValues :
       LET q == WithBody(reqs[r], f, rp)
           fileHash == generateFileHash(q.buffer)
           existingFile == findOne(index, fileHash)
       IN /\ now' = t
          /\ IF existingFile # {}
             THEN IF q.replace = "true"
                  THEN LET old == CHOOSE e \in existingFile : TRUE
                       IN /\ reqs' = [reqs EXCEPT ![r] =
                                        [q EXCEPT !.pc = "saving",
                                                  !.existing = existingFile,
                                                  !.doc = {ReplacedFileInline(old, q, t)}]]
                          /\ UNCHANGED nextOid
                  ELSE /\ reqs' = Respond(r, q, 409, {})
                       /\ UNCHANGED nextOid
             ELSE /\ nextOid' = nextOid + 1
                  /\ reqs' = [reqs EXCEPT ![r] =
                                [q EXCEPT !.pc = "saving",
                                          !.doc = {NewFileInline(nextOid, q, fileHash, t)}]]
    /\ UNCHANGED <<index, disk, issued, deleted, ui>>

\* `await newFile.save()` / `await existingFile.save()` of part_003 and what
\* follows it: the response, or the catch block's 500.
UploadInlineSave(r) ==
    /\ reqs[r].kind = "upload" /\ reqs[r].pc = "saving"
    /\ LET q == reqs[r]
           local == CHOOSE d \in q.doc : TRUE
           at == findIdIndex(index, local.id)
       IN IF ~checkRequired(local)
          THEN \* ValidationError, before any command is sent
               /\ reqs' = Respond(r, q, 500, {})
               /\ UNCHANGED index
          ELSE IF q.existing = {}
          THEN IF DuplicateKey(index, local)
               THEN /\ reqs' = Respond(r, q, 500, {})
                    /\ UNCHANGED index
               ELSE /\ index' = Append(index, local)
                    /\ reqs' = Respond(r, q, 201, {local})
          ELSE LET loaded == CHOOSE e \in q.existing : TRUE
               IN IF at = 0
                  THEN \* DocumentNotFoundError
                       /\ reqs' = Respond(r, q, 500, {})
                       /\ UNCHANGED index
                  ELSE /\ index' = [index EXCEPT
                                      ![at] = ApplyModifiedInline(index[at], loaded, local)]
                       /\ reqs' = Respond(r, q, 200, {local})
    /\ UNCHANGED <<now, disk, issued, nextOid, deleted, ui>>

\* app.delete('/api/files/:id') of part_003 up to `await findByIdAndDelete`.
DeleteInlineFindById ==
    /\ Cardinality(Deletes) < MaxDeletes
    /\ \E id \in LiveIds(index) \cup deleted :
         LET file == findById(index, id)
             q == [NewRequest("delete", "start") EXCEPT !.id = id]
             r == Len(reqs) + 1
         IN reqs' = IF file = {}
                    THEN [Append(reqs, q) EXCEPT ![r].pc = "done", ![r].status = 404]
                    ELSE [Append(reqs, q) EXCEPT ![r].pc = "deleting", ![r].existing = file]
    /\ UNCHANGED <<now, index, disk, issued, nextOid, deleted, ui>>

\* `await File.findByIdAndDelete(req.params.id)` of part_003 and the response.
DeleteInlineFindByIdAndDelete(r) ==
    /\ reqs[r].kind = "delete" /\ reqs[r].pc = "deleting"
    /\ LET at == findIdIndex(index, reqs[r].id)
       IN /\ index' = IF at = 0 THEN index ELSE Splice(index, at)
          /\ deleted' = IF at = 0 THEN deleted ELSE deleted \cup {reqs[r].id}
          /\ reqs' = Respond(r, reqs[r], 200, {})
    /\ UNCHANGED <<now, disk, issued, nextOid, ui>>

\* app.get('/api/files') of part_003: File.find().sort({ uploadDate: -1 })
\* loads the documents whole, and each is sent as file.toObject() with _id
\* renamed to id: every field of the document, data among them.
ListInline ==
    /\ Cardinality(Reads) < MaxReads
    /\ \E files \in sortByUploadDate(index) :
         reqs' = Answer("list", -1, 200, {}, files)
    /\ UNCHANGED <<now, index, disk, issued, nextOid, deleted, ui>>

\* app.get('/api/files/:id') of part_003: res.json(file), the document whole.
GetInline ==
    /\ Cardinality(Reads) < MaxReads
    /\ \E id \in LiveIds(index) \cup deleted \cup {nextOid} :
         reqs' = IF findById(index, id) = {}
                 THEN Answer("get", id, 404, {}, <<>>)
                 ELSE Answer("get", id, 200, findById(index, id), <<>>)
    /\ UNCHANGED <<now, index, disk, issued, nextOid, deleted, ui>>

NextInline ==
    \/ MulterMemory
    \/ \E r \in 1..Len(reqs) : UploadInlineFindOne(r)
    \/ \E r \in 1..Len(reqs) : UploadInlineSave(r)
    \/ DeleteInlineFindById
    \/ \E r \in 1..Len(reqs) : DeleteInlineFindByIdAndDelete(r)
    \/ ListInline
    \/ GetInline

SpecInline == Init /\ [][NextInline]_vars

\* ------------------------------------------- contents of one size
\* "hello" and "world": two contents of the same length.
SameSizePayloads == {<<104, 101, 108, 108, 111>>, <<119, 111, 114, 108, 100>>}

\* upload.single('file') on uploads whose contents have one length.
MulterStageSameSize ==
    /\ Cardinality(Uploads) < MaxUploads
    /\ \E b \in SameSizePayloads :
         LET p == uniqueSuffix(issued)
             q == [NewRequest("upload", "staged") EXCEPT !.buffer = b, !.path = p]
         IN /\ reqs' = Append(reqs, q)
            /\ disk' = writeFile(disk, p, b)
            /\ issued' = issued + 1
    /\ UNCHANGED <<now, index, nextOid, deleted, ui>>

NextSameSize ==
    \/ MulterStageSameSize
    \/ \E r \in 1..Len(reqs) : UploadHandlerFile(r)
    \/ DeleteHandlerFile

SpecSameSize == Init /\ [][NextSameSize]_vars

\* ------------------------------------------- racing deletes (MongoDB variant)
\* app.delete('/api/files/:id') of part_002 up to `await findByIdAndDelete`,
\* for a second request that names the id of a delete still in flight.
DeleteFindByIdAgain ==
    /\ Cardinality(Deletes) < MaxDeletes + 1
    /\ \E d \in Deletes :
         /\ reqs[d].pc = "deleting"
         /\ LET id == reqs[d].id
                file == findById(index, id)
                q == [NewRequest("delete", "start") EXCEPT !.id = id]
                r == Len(reqs) + 1
            IN IF file = {}
               THEN /\ reqs' = [Append(reqs, q) EXCEPT ![r].pc = "done", ![r].status = 404]
                    /\ UNCHANGED disk
               ELSE /\ disk' = removeSync(disk, (CHOOSE f \in file : TRUE).path)
                    /\ reqs' = [Append(reqs, q) EXCEPT ![r].pc = "deleting",
                                                      ![r].existing = file]
    /\ UNCHANGED <<now, index, issued, nextOid, deleted, ui>>

NextMongoRace ==
    \/ MulterStage
    \/ \E r \in 1..Len(reqs) : UploadFindOne(r)
    \/ \E r \in 1..Len(reqs) : UploadSave(r)
    \/ DeleteFindById
    \/ DeleteFindByIdAgain
    \/ \E r \in 1..Len(reqs) : DeleteFindByIdAndDelete(r)

SpecMongoRace == Init /\ [][NextMongoRace]_vars

\* ------------------------------------------- delete after a crashed delete
\* Mutant: the file is removed with a call that throws on a missing path
\* (no existsSync guard): the catch answers 500 and nothing is saved.
DeleteHandlerRetryStrict ==
    /\ Cardinality({d \in Deletes : reqs[d].pc # "crashed"}) < MaxDeletes
    /\ \E d \in Deletes :
         /\ reqs[d].pc = "crashed"
         /\ LET id == reqs[d].id
                data == index
                itemIndex == findIdIndex(data, id)
                q == [NewRequest("delete", "start") EXCEPT !.id = id]
                r == Len(reqs) + 1
            IN IF itemIndex = 0
               THEN /\ reqs' = [Append(reqs, q) EXCEPT ![r].pc = "done", ![r].status = 404]
                    /\ UNCHANGED <<index, disk, deleted>>
               ELSE IF data[itemIndex].path \notin DOMAIN disk
               THEN /\ reqs' = [Append(reqs, q) EXCEPT ![r].pc = "done", ![r].status = 500]
                    /\ UNCHANGED <<index, disk, deleted>>
               ELSE /\ disk' = removeSync(disk, data[itemIndex].path)
                    /\ index' = Splice(data, itemIndex)
                    /\ deleted' = deleted \cup {id}
                    /\ reqs' = [Append(reqs, q) EXCEPT ![r].pc = "done", ![r].status = 200]
    /\ UNCHANGED <<now, issued, nextOid, ui>>

\* app.delete('/api/files/:id') of backend/server.js, called again with the
\* id of a delete that died: `if (fs.existsSync(item.path))` guards the
\* removal, so a file that is gone is passed over.
DeleteHandlerRetry ==
    /\ Cardinality({d \in Deletes : reqs[d].pc # "crashed"}) < MaxDeletes
    /\ \E d \in Deletes :
         /\ reqs[d].pc = "crashed"
         /\ LET id == reqs[d].id
                data == index
                itemIndex == findIdIndex(data, id)
                q == [NewRequest("delete", "start") EXCEPT !.id = id]
                r == Len(reqs) + 1
            IN IF itemIndex = 0
               THEN /\ reqs' = [Append(reqs, q) EXCEPT ![r].pc = "done", ![r].status = 404]
                    /\ UNCHANGED <<index, disk, deleted>>
               ELSE /\ disk' = IF data[itemIndex].path \in DOMAIN disk
                               THEN removeSync(disk, data[itemIndex].path)
                               ELSE disk
                    /\ index' = Splice(data, itemIndex)
                    /\ deleted' = deleted \cup {id}
                    /\ reqs' = [Append(reqs, q) EXCEPT ![r].pc = "done", ![r].status = 200]
    /\ UNCHANGED <<now, issued, nextOid, ui>>

NextRetry ==
    \/ MulterStage
    \/ \E r \in 1..Len(reqs) : UploadHandlerFile(r)
    \/ DeleteHandlerFile
    \/ CrashInDelete
    \/ DeleteHandlerRetry

SpecRetry == Init /\ [][NextRetry]_vars

\* ------------------------------------------- storage faults (file variant)
\* The errno of a failed write, read and removal in uploads/.
StorageErrors == {"ENOSPC", "EIO", "EPERM"}

\* upload.single('file') when the disk write of the file part fails: multer
\* removes what it wrote and passes the error to next(); the route handler
\* never runs, and with no error middleware Express answers 500.
MulterWriteFails ==
    /\ Cardinality(Uploads) < MaxUploads
    /\ \E b \in Payloads :
         reqs' = [Answer("upload", -1, 500, {}, <<>>) EXCEPT
                     ![Len(reqs) + 1].buffer = b,
                     ![Len(reqs) + 1].error = "ENOSPC"]
    /\ issued' = issued + 1
    /\ UNCHANGED <<now, index, disk, nextOid, deleted, ui>>

\* Mutant: the read has no try/catch around it and the handler goes on with
\* an empty buffer to the create branch.
UploadReadFailsRecords(r) ==
    /\ reqs[r].kind = "upload" /\ reqs[r].pc = "staged"
    /\ \E f \in ClientForms, rp \in ReplaceFlags :
         LET q == WithBody(reqs[r], f, rp)
         IN /\ reqs' = [Respond(r, q, 500, {}) EXCEPT ![r].error = "EIO"]
            /\ index' = Append(index, NewItem(now, q, <<>>, generateFileHash(<<>>), now))
    /\ UNCHANGED <<now, disk, issued, nextOid, deleted, ui>>

\* app.post('/api/upload') when fs.readFileSync(req.file.path) throws: the
\* catch answers 500 before loadData() was called.
UploadReadFails(r) ==
    /\ reqs[r].kind = "upload" /\ reqs[r].pc = "staged"
    /\ \E f \in ClientForms, rp \in ReplaceFlags :
         LET q == WithBody(reqs[r], f, rp)
         IN reqs' = [Respond(r, q, 500, {}) EXCEPT ![r].error = "EIO"]
    /\ UNCHANGED <<now, index, disk, issued, nextOid, deleted, ui>>

\* app.post('/api/upload') when, in the replace branch,
\* fs.removeSync(oldItem.path) throws: the catch answers 500 before
\* existingData was changed or saved.
UploadRemoveFails(r) ==
    /\ reqs[r].kind = "upload" /\ reqs[r].pc = "staged"
    /\ \E f \in ClientForms :
         LET q == WithBody(reqs[r], f, "true")
             fileHash == generateFileHash(disk[q.path])
             duplicateIndex == findDuplicateIndex(index, fileHash)
         IN /\ q.path \in DOMAIN disk
            /\ duplicateIndex # 0
            /\ shouldReplace(q.replace)
            /\ index[duplicateIndex].path \in DOMAIN disk
            /\ reqs' = [Respond(r, q, 500, {}) EXCEPT ![r].error = "EPERM"]
    /\ UNCHANGED <<now, index, disk, issued, nextOid, deleted, ui>>

NextFault ==
    \/ MulterStage
    \/ \E r \in 1..Len(reqs) : UploadHandlerFile(r)
    \/ DeleteHandlerFile
    \/ MulterWriteFails
    \/ \E r \in 1..Len(reqs) : UploadReadFails(r)
    \/ \E r \in 1..Len(reqs) : UploadRemoveFails(r)

SpecFault == Init /\ [][NextFault]_vars

\* ------------------------------------------- index write faults (file variant)
\* What loadData() returns after fs.writeFileSync(dataFilePath, ...) has
\* thrown inside saveData: the array of before when the file could not be
\* opened, or [] when the file was truncated and the write did not finish
\* (JSON.parse throws in loadData, whose catch falls through to return []).
\* saveData catches the error and returns as if it had written.
saveDataFails(before) == {before, <<>>}

\* app.post('/api/upload') of backend/server.js, create or replace branch,
\* when the write of items.json fails: the handler goes on to its response.
UploadHandlerSaveFails(r) ==
    /\ reqs[r].kind = "upload" /\ reqs[r].pc = "staged"
    /\ \E f \in ClientForms, rp \in ReplaceFlags, t \in ClockValues :
         LET q == WithBody(reqs[r], f, rp)
             fileBuffer == disk[q.path]
             fileHash == generateFileHash(fileBuffer)
             existingData == index
             duplicateIndex == findDuplicateIndex(existingData, fileHash)
         IN /\ q.path \in DOMAIN disk
            /\ now' = t
            /\ index' \in saveDataFails(existingData)
            /\ IF duplicateIndex # 0
               THEN /\ shouldReplace(q.replace)
                    /\ LET oldItem == existingData[duplicateIndex]
                           newItem == ReplacedItem(oldItem, q, fileBuffer, t)
                       IN /\ disk' = removeSync(disk, oldItem.path)
                          /\ reqs' = [Respond(r, q, 200, {newItem}) EXCEPT
                                         ![r].error = "saveData"]
               ELSE LET newItem == NewItem(t, q, fileBuffer, fileHash, t)
                    IN /\ reqs' = [Respond(r, q, 201, {newItem}) EXCEPT
                                      ![r].error = "saveData"]
                       /\ UNCHANGED disk
    /\ UNCHANGED <<issued, nextOid, deleted, ui>>

\* app.delete('/api/files/:id') of backend/server.js when the write of
\* items.json fails: the file is removed and the answer is 200.
DeleteHandlerSaveFails ==
    /\ Cardinality(Deletes) < MaxDeletes
    /\ \E id \in LiveIds(index) :
         LET data == index
             itemIndex == findIdIndex(data, id)
             q == [NewRequest("delete", "done") EXCEPT
                      !.id = id, !.status = 200, !.error = "saveData"]
         IN /\ disk' = removeSync(disk, data[itemIndex].path)
            /\ index' \in saveDataFails(data)
            /\ reqs' = Append(reqs, q)
    /\ UNCHANGED <<now, issued, nextOid, deleted, ui>>

NextSaveFault ==
    \/ MulterStage
    \/ \E r \in 1..Len(reqs) : UploadHandlerFile(r)
    \/ DeleteHandlerFile
    \/ GetHandlerFile
    \/ ListHandlerFile
    \/ \E r \in 1..Len(reqs) : UploadHandlerSaveFails(r)
    \/ DeleteHandlerSaveFails

SpecSaveFault == Init /\ [][NextSaveFault]_vars

\* ------------------------------------------- database faults (MongoDB variant)
\* `await newFile.save()` / `await existingFile.save()` of part_002 when the
\* command is rejected by the driver (the connection is lost, the server
\* times out): nothing is written, the catch removes the staged file and
\* answers 500.
UploadSaveFails(r) ==
    /\ reqs[r].kind = "upload" /\ reqs[r].pc = "saving"
    /\ disk' = removeSync(disk, reqs[r].path)
    /\ reqs' = [Respond(r, reqs[r], 500, {}) EXCEPT ![r].error = "MongoNetworkError"]
    /\ UNCHANGED <<now, index, issued, nextOid, deleted, ui>>

NextMongoFault ==
    \/ MulterStage
    \/ \E r \in 1..Len(reqs) : UploadFindOne(r)
    \/ \E r \in 1..Len(reqs) : UploadSave(r)
    \/ DeleteFindById
    \/ \E r \in 1..Len(reqs) : DeleteFindByIdAndDelete(r)
    \/ \E r \in 1..Len(reqs) : UploadSaveFails(r)

SpecMongoFault == Init /\ [][NextMongoFault]_vars

\* ------------------------------------------- the upload component's methods
\* The files the user can pick: two ordinary ones and one over 10MB.
UserFiles ==
    {[name |-> "a.txt", size |-> 5],
     [name |-> "b.png", size |-> 0],
     [name |-> "big.bin", size |-> fileSize + 1]}

\* What the user types into the description field (ngModel).
UserDescriptions == {"", "v1"}

\* What the POST /api/upload request ends with, as HttpClient reports it: a
\* success (201, 200) with the body's message, or an HttpErrorResponse whose
\* error.error is the server's text (409, 500) or is undefined (status 0: no
\* answer at all).
Succeeds(response) == response.status \in {200, 201}
UploadResponses ==
    {[status |-> 201, message |-> "File uploaded successfully", error |-> ""],
     [status |-> 409, message |-> "", error |-> "File already exists"],
     [status |-> 500, message |-> "", error |-> "Internal server error"],
     [status |-> 0,   message |-> "", error |-> Undefined]}
ReplaceResponses ==
    {[status |-> 200, message |-> "File replaced successfully", error |-> ""],
     [status |-> 201, message |-> "File uploaded successfully", error |-> ""],
     [status |-> 500, message |-> "", error |-> "Internal server error"],
     [status |-> 0,   message |-> "", error |-> Undefined]}

\* text.includes('already exists'), of the texts above.
includesAlreadyExists(text) == text = "File already exists"

\* The duplicate branch of uploadFile (of its try and of its catch alike).
ShowDuplicate(u) ==
    [u EXCEPT !.duplicateFileName = u.selectedFile.name,
              !.showDuplicateDialog = TRUE,
              !.isUploading = FALSE,
              !.uploadProgress = 0]

\* Mutant: the service sends replace = 'false' whatever it is given.
UploadRequestNoReplace(file, description, replace) ==
    [file |-> file, description |-> description, replace |-> "false"]

\* FileService.uploadFile(file, description, replace): the FormData posted,
\* with replace.toString().
UploadRequest(file, description, replace) ==
    [file |-> file, description |-> description,
     replace |-> IF replace THEN "true" ELSE "false"]

\* showStatus(message, type): sets the message and starts the timer that
\* clears it after 5 s.
showStatus(u, message, type) ==
    [u EXCEPT !.statusMessage = message, !.statusType = type,
              !.statusTimers = u.statusTimers + 1]

\* resetForm()
resetForm(u) == [u EXCEPT !.selectedFile = NoFile, !.description = ""]

\* The finally block of uploadFile / replaceFile: isUploading = false and
\* setTimeout(() => { uploadProgress = 0 }, 2000).
Finally(u) ==
    [u EXCEPT !.isUploading = FALSE, !.resetTimers = u.resetTimers + 1, !.pc = "idle"]

\* The description field is edited.
TypeDescription ==
    /\ \E d \in UserDescriptions :
         /\ d # ui.description
         /\ ui' = [ui EXCEPT !.description = d]
    /\ UNCHANGED <<now, index, disk, reqs, issued, nextOid, deleted>>

\* onFileSelected / onDrop -> handleFileSelect(file). The duplicate dialog
\* lies over the form while it is shown, so no file is picked then.
HandleFileSelect ==
    /\ ~ui.showDuplicateDialog
    /\ \E file \in UserFiles :
         IF file.size > 10 * 1024 * 1024
         THEN /\ ui.statusTimers < MaxTimers
              /\ ui' = showStatus(ui, "File size exceeds 10MB limit", "error")
         ELSE /\ file # ui.selectedFile
              /\ ui' = [ui EXCEPT !.selectedFile = file]
    /\ UNCHANGED <<now, index, disk, reqs, issued, nextOid, deleted>>

\* uploadFile() up to its await; the button is taken to be usable when no
\* attempt is running and no dialog is shown.
UploadFileStart ==
    /\ ~ui.isUploading /\ ~ui.showDuplicateDialog
    /\ IF ui.selectedFile = NoFile
       THEN /\ ui.statusTimers < MaxTimers
            /\ ui' = showStatus(ui, "Please select a file first", "error")
       ELSE /\ ui.attempts < MaxAttempts
            /\ ui' = [ui EXCEPT
                        !.isUploading = TRUE,
                        !.uploadProgress = 0,
                        !.intervals = ui.intervals + 1,
                        !.sent = Append(ui.sent,
                                   UploadRequest(ui.selectedFile, ui.description, FALSE)),
                        !.pc = "uploading",
                        !.attempts = ui.attempts + 1]
    /\ UNCHANGED <<now, index, disk, reqs, issued, nextOid, deleted>>

\* uploadFile() from its await on: the try's rest on success, the catch on
\* an error, and the finally. clearInterval is reached on success only.
UploadFileResume ==
    /\ ui.pc = "uploading"
    /\ \E response \in UploadResponses :
         LET u == [ui EXCEPT !.response = response]
         IN ui' =
              IF Succeeds(response)
              THEN LET cleared == [u EXCEPT !.intervals = u.intervals - 1,
                                            !.uploadProgress = 100]
                   IN IF includesAlreadyExists(response.message)
                      THEN Finally(ShowDuplicate(cleared))
                      ELSE Finally(resetForm(showStatus(cleared,
                              "File uploaded successfully!", "success")))
              ELSE IF includesAlreadyExists(response.error)
              THEN Finally(ShowDuplicate(u))
              ELSE Finally(showStatus(u, JsOr(response.error, "Upload failed"), "error"))
    /\ UNCHANGED <<now, index, disk, reqs, issued, nextOid, deleted>>

\* replaceFile() up to its await (the dialog's Replace button).
ReplaceFileStart ==
    /\ ui.showDuplicateDialog /\ ~ui.isUploading
    /\ ui.attempts < MaxAttempts
    /\ ui' = [ui EXCEPT
                !.showDuplicateDialog = FALSE,
                !.isUploading = TRUE,
                !.uploadProgress = 0,
                !.intervals = ui.intervals + 1,
                !.sent = Append(ui.sent,
                           UploadRequest(ui.selectedFile, ui.description, TRUE)),
                !.pc = "replacing",
                !.attempts = ui.attempts + 1]
    /\ UNCHANGED <<now, index, disk, reqs, issued, nextOid, deleted>>

\* replaceFile() from its await on.
ReplaceFileResume ==
    /\ ui.pc = "replacing"
    /\ \E response \in ReplaceResponses :
         LET u == [ui EXCEPT !.response = response]
         IN ui' =
              IF Succeeds(response)
              THEN Finally(resetForm(showStatus(
                      [u EXCEPT !.intervals = u.intervals - 1, !.uploadProgress = 100],
                      "File replaced successfully!", "success")))
              ELSE Finally(showStatus(u, JsOr(response.error, "Replace failed"), "error"))
    /\ UNCHANGED <<now, index, disk, reqs, issued, nextOid, deleted>>

\* cancelReplace() (the dialog's Cancel button).
CancelReplace ==
    /\ ui.showDuplicateDialog /\ ~ui.isUploading
    /\ ui' = resetForm([ui EXCEPT !.showDuplicateDialog = FALSE,
                                  !.duplicateFileName = ""])
    /\ UNCHANGED <<now, index, disk, reqs, issued, nextOid, deleted>>

\* A setInterval callback runs (every 100 ms while its timer is not cleared):
\* if (uploadProgress < 90) uploadProgress += 10.
ProgressInterval ==
    /\ ui.intervals > 0
    /\ ui.uploadProgress < 90
    /\ ui' = [ui EXCEPT !.uploadProgress = ui.uploadProgress + 10]
    /\ UNCHANGED <<now, index, disk, reqs, issued, nextOid, deleted>>

\* The setTimeout callback of a finally block runs: uploadProgress = 0.
ProgressReset ==
    /\ ui.resetTimers > 0
    /\ ui' = [ui EXCEPT !.uploadProgress = 0, !.resetTimers = ui.resetTimers - 1]
    /\ UNCHANGED <<now, index, disk, reqs, issued, nextOid, deleted>>

\* The setTimeout callback of showStatus runs: the message is cleared.
StatusClear ==
    /\ ui.statusTimers > 0
    /\ ui' = [ui EXCEPT !.statusMessage = "", !.statusType = "",
                        !.statusTimers = ui.statusTimers - 1]
    /\ UNCHANGED <<now, index, disk, reqs, issued, nextOid, deleted>>

NextUi ==
    \/ TypeDescription
    \/ HandleFileSelect
    \/ UploadFileStart
    \/ UploadFileResume
    \/ ReplaceFileStart
    \/ ReplaceFileResume
    \/ CancelReplace
    \/ ProgressInterval
    \/ ProgressReset
    \/ StatusClear

SpecUi == Init /\ [][NextUi]_vars

\* ------------------------------------------------------------------ claims
Answered(r) == reqs[r].status # 0
WithHash(h) == {i \in 1..Len(index) : index[i].hash = h}
UploadsOf(b) == {r \in Uploads : reqs[r].buffer = b}

\* C1: in every reachable state no two live records of the metadata index
\* have the same hash, whatever uploads (create, reject, replace) and deletes
\* have run and however their steps interleaved.
C1_UniqueFingerprint ==
    \A i, j \in 1..Len(index) : i # j => index[i].hash # index[j].hash

\* C1's case: an upload of content that was already stored has been answered
\* Replaced, and the record with its hash is live.
C1_Witness ==
    \E r \in Uploads :
        /\ reqs[r].status = 200
        /\ WithHash(generateFileHash(reqs[r].buffer)) # {}

\* C2: from an empty store, with no record deleted, once N uploads of the same
\* bytes, none asking for replace, have all been answered, exactly one was
\* answered Created (201), the other N-1 Duplicate (409), and exactly one
\* record with that hash is live.
C2_DedupIdempotence ==
    \A b \in Payloads :
        LET U == UploadsOf(b)
        IN (/\ U # {}
            /\ deleted = {}
            /\ \A r \in U : Answered(r) /\ ~shouldReplace(reqs[r].replace))
           => /\ Cardinality({r \in U : reqs[r].status = 201}) = 1
              /\ Cardinality({r \in U : reqs[r].status = 409}) = Cardinality(U) - 1
              /\ Cardinality(WithHash(generateFileHash(b))) = 1

\* C2's case: every upload the bound allows carried the same bytes without
\* replace, and all of them have been answered.
C2_Witness ==
    \E b \in Payloads :
        /\ Cardinality(UploadsOf(b)) = MaxUploads
        /\ \A r \in UploadsOf(b) : Answered(r) /\ ~shouldReplace(reqs[r].replace)
        /\ \E r \in UploadsOf(b) : reqs[r].status = 409

\* An upload that found no document with its hash and went on to insert one.
TookCreateBranch(r) == reqs[r].existing = {} /\ reqs[r].doc # {}

\* C3: when uploads of identical content race (each looked the hash up before
\* any of them inserted), at most one of them is answered Created: with no
\* record deleted, no two uploads of the same bytes are both answered 201.
C3_OneCreatorPerContent ==
    deleted = {} =>
        \A r1, r2 \in Uploads :
            (/\ r1 # r2
             /\ reqs[r1].buffer = reqs[r2].buffer
             /\ reqs[r1].status = 201)
            => reqs[r2].status # 201

\* C3's case: two uploads of the same bytes both found nothing and both went
\* on to insert; one was answered Created and the other has been answered too.
C3_Witness ==
    \E r1, r2 \in Uploads :
        /\ r1 # r2
        /\ reqs[r1].buffer = reqs[r2].buffer
        /\ TookCreateBranch(r1) /\ TookCreateBranch(r2)
        /\ reqs[r1].status = 201
        /\ Answered(r2)

\* The step in which upload r is answered with the given status.
AnswersUpload(r, status) ==
    /\ reqs[r].kind = "upload"
    /\ reqs[r].status = 0
    /\ reqs'[r].status = status

\* C4: an upload whose insert is refused because a concurrent upload inserted
\* the same hash first ends as Duplicate (409) or Replaced (200); the refusal
\* is never returned to the caller as a raw error.
C4_ConflictBecomesOutcome ==
    [][\A r \in 1..Len(reqs) :
          (/\ reqs[r].pc = "saving"
           /\ reqs[r].existing = {}
           /\ DuplicateKey(index, CHOOSE d \in reqs[r].doc : TRUE)
           /\ reqs'[r].pc = "done")
          => reqs'[r].status \in {409, 200}]_vars

\* C5: two uploads with different content, handled with no record deleted,
\* are both answered Created and leave two distinct live records whose hashes
\* differ and whose ids differ, also with one file name and one clock value.
C5_NoCrossContamination ==
    \A r1, r2 \in Uploads :
        (/\ r1 # r2
         /\ reqs[r1].buffer # reqs[r2].buffer
         /\ Answered(r1) /\ Answered(r2)
         /\ \A r \in Uploads : reqs[r].buffer \in {reqs[r1].buffer, reqs[r2].buffer}
                                 => r \in {r1, r2}
         /\ deleted = {})
        => /\ reqs[r1].status = 201 /\ reqs[r2].status = 201
           /\ \E i, j \in 1..Len(index) :
                 /\ i # j
                 /\ index[i].hash = generateFileHash(reqs[r1].buffer)
                 /\ index[j].hash = generateFileHash(reqs[r2].buffer)
                 /\ index[i].hash # index[j].hash
                 /\ index[i].id # index[j].id

\* C6: over any run of uploads and deletes, the id of a record that has been
\* deleted is never given to a record created later.
C6_IdNeverReused ==
    [][\A r \in 1..Len(reqs) :
          AnswersUpload(r, 201)
          => \A it \in reqs'[r].item : it.id \notin deleted]_vars

\* The position of the live record holding the bytes of upload r, 0 if none.
StoredAt(r) == findDuplicateIndex(index, generateFileHash(reqs'[r].buffer))

\* C7: when an upload of content that is already stored is answered Replaced
\* (200), the record keeps its id and its hash, its uploadDate becomes the
\* time of the replacement, and the file its path names exists and holds the
\* bytes of this upload; no other record changes.
C7_ReplacePreservesIdentity ==
    [][\A r \in 1..Len(reqs) :
          AnswersUpload(r, 200)
          => LET i == StoredAt(r)
             IN /\ i # 0
                /\ Len(index') = Len(index)
                /\ index'[i].id = index[i].id
                /\ index'[i].hash = index[i].hash
                /\ index'[i].uploadDate = now'
                /\ index'[i].path \in DOMAIN disk'
                /\ disk'[index'[i].path] = reqs'[r].buffer
                /\ reqs'[r].item = {index'[i]}
                /\ \A j \in 1..Len(index) : j # i => index'[j] = index[j]]_vars

\* C7's case: content was Created, then uploaded again under another name
\* with replace at a later time and answered Replaced; the live record has
\* the id of the created one, a later uploadDate, and its file holds the bytes.
C7_Witness ==
    \E r1, r2 \in Uploads :
        /\ reqs[r1].status = 201 /\ reqs[r2].status = 200
        /\ reqs[r1].buffer = reqs[r2].buffer
        /\ reqs[r1].originalname # reqs[r2].originalname
        /\ \E i \in 1..Len(index), c \in reqs[r1].item :
              /\ index[i].id = c.id
              /\ index[i].hash = c.hash
              /\ index[i].uploadDate > c.uploadDate
              /\ index[i].path = reqs[r2].path
              /\ index[i].path \in DOMAIN disk
              /\ c.path \notin DOMAIN disk
              /\ disk[index[i].path] = reqs[r2].buffer

C9_RejectLeavesStoreUntouched ==
    [][/\ \A r \in 1..Len(reqs) :
            (/\ reqs[r].kind = "upload"
             /\ reqs[r].pc = "staged" /\ reqs'[r].pc = "done"
             /\ StoredAt(r) # 0
             /\ reqs'[r].replace # "true")
            => /\ reqs'[r].status = 409
               /\ index' = index
               /\ DOMAIN disk' = (DOMAIN disk) \ {reqs[r].path}
               /\ \A p \in DOMAIN disk' : disk'[p] = disk[p]
               /\ index[StoredAt(r)].path \in DOMAIN disk'
       /\ \A i \in 1..Len(index), j \in 1..Len(index') :
            (index'[j].hash = index[i].hash /\ index'[j] # index[i])
            => \E r \in 1..Len(reqs) :
                  /\ AnswersUpload(r, 200)
                  /\ reqs'[r].replace = "true"
                  /\ generateFileHash(reqs'[r].buffer) = index[i].hash]_vars

\* C9's case: an upload that sent no replace field found its bytes stored and
\* was answered 409; its staged file is gone, and the stored record's file is
\* on disk with those bytes.
C9_Witness ==
    \E r \in Uploads, i \in 1..Len(index) :
        /\ reqs[r].status = 409
        /\ reqs[r].replace = Undefined
        /\ reqs[r].path \notin DOMAIN disk
        /\ index[i].hash = generateFileHash(reqs[r].buffer)
        /\ index[i].path \in DOMAIN disk
        /\ disk[index[i].path] = reqs[r].buffer

AnswersNew(kind) ==
    /\ Len(reqs') = Len(reqs) + 1
    /\ reqs'[Len(reqs')].kind = kind
    /\ reqs'[Len(reqs')].status # 0

\* C11: after delete(id) has answered success, no record with that id is
\* live, so that get(id) and delete(id) answer NotFound and list() does not
\* show it; a deleted id comes back only through an upload that is answered
\* Created; and get, delete and list answer from the live records alone.
C11_DeleteIsTerminal ==
    [][/\ (AnswersNew("delete") /\ reqs'[Len(reqs')].status = 200)
            => reqs'[Len(reqs')].id \notin LiveIds(index')
       /\ \A id \in deleted :
            (id \notin LiveIds(index) /\ id \in LiveIds(index'))
            => \E r \in 1..Len(reqs) :
                  AnswersUpload(r, 201) /\ \E it \in reqs'[r].item : it.id = id
       /\ (AnswersNew("get") \/ AnswersNew("delete"))
            => (reqs'[Len(reqs')].status = 404
                   <=> reqs'[Len(reqs')].id \notin LiveIds(index))
       /\ AnswersNew("list") => reqs'[Len(reqs')].list = index]_vars

\* The step in which the process dies inside a delete handler.
DiesInDelete ==
    /\ Len(reqs') = Len(reqs) + 1
    /\ reqs'[Len(reqs')].kind = "delete"
    /\ reqs'[Len(reqs')].pc = "crashed"

\* C12: delete removes the record's file before the index entry: no step
\* takes a record out of the index and leaves its file on disk, and a crash
\* between the two steps leaves the entry in the index with its file gone,
\* the index and every other file being as before.
C12_DeleteBlobThenEntry ==
    [][/\ \A i \in 1..Len(index) :
            index[i].path \in DOMAIN disk'
            => \E j \in 1..Len(index') : /\ index'[j].id = index[i].id
                                          /\ index'[j].path = index[i].path
       /\ DiesInDelete
            => LET i == findIdIndex(index, reqs'[Len(reqs')].id)
               IN /\ i # 0
                  /\ index' = index
                  /\ index'[i].path \notin DOMAIN disk'
                  /\ DOMAIN disk' = (DOMAIN disk) \ {index[i].path}
                  /\ \A p \in DOMAIN disk' : disk'[p] = disk[p]]_vars

\* C12's case: the process died inside a delete; the entry it was deleting
\* is in the index and its file is not on disk.
C12_Witness ==
    \E r \in Deletes, i \in 1..Len(index) :
        /\ reqs[r].pc = "crashed"
        /\ index[i].id = reqs[r].id
        /\ index[i].path \notin DOMAIN disk

\* C13: at every instant, a crash inside an upload included, the file of
\* every live record exists, except for a record whose delete crashed after
\* removing the file.
C13_RecordsHaveBlobs ==
    \A i \in 1..Len(index) :
        \/ index[i].path \in DOMAIN disk
        \/ \E r \in Deletes : reqs[r].pc = "crashed" /\ reqs[r].id = index[i].id

\* C19: get(id) on a live record whose file is missing from uploads/ never
\* answers success.
C19_GetDetectsMissingBlob ==
    [][AnswersNew("get")
       => LET i == findIdIndex(index, reqs'[Len(reqs')].id)
          IN (i # 0 /\ index[i].path \notin DOMAIN disk)
             => reqs'[Len(reqs')].status # 200]_vars

\* C14: whenever no request is in flight, after any interleaving of uploads
\* and deletes, the file of every live record exists and every file in
\* uploads/ is the file of a live record.
C14_NoOrphans ==
    (\A r \in 1..Len(reqs) : Answered(r))
    => /\ \A i \in 1..Len(index) : index[i].path \in DOMAIN disk
       /\ \A p \in DOMAIN disk : \E i \in 1..Len(index) : index[i].path = p

\* C15: in every reachable state no two live records have the same path.
C15_PathsDistinct ==
    \A i, j \in 1..Len(index) : i # j => index[i].path # index[j].path

\* C16: an upload request without a payload, or with a payload of zero
\* bytes, is answered InvalidInput (400), and the index and uploads/ are
\* after it what they were before it.
C16_NoOrEmptyPayloadInvalid ==
    [][/\ (/\ AnswersNew("upload")
           /\ reqs'[Len(reqs')].buffer = NoBuffer
           /\ reqs'[Len(reqs')].size = -1)
          => /\ reqs'[Len(reqs')].status = 400
             /\ index' = index
             /\ disk' = disk
       /\ \A r \in 1..Len(reqs) :
            (/\ reqs[r].kind = "upload"
             /\ reqs[r].pc = "staged" /\ reqs'[r].pc = "done"
             /\ Len(reqs[r].buffer) = 0)
            => /\ reqs'[r].status = 400
               /\ index' = index
               /\ DOMAIN disk' = (DOMAIN disk) \ {reqs[r].path}]_vars

C18_UnknownIdNotFound ==
    [][((AnswersNew("get") \/ AnswersNew("delete"))
        /\ reqs'[Len(reqs')].id \notin LiveIds(index))
       => /\ reqs'[Len(reqs')].status = 404
          /\ index' = index
          /\ disk' = disk]_vars

\* C20: an upload whose hash no live record has is answered Created whatever
\* its replace field; the step appends exactly one record, which has that
\* hash, an id that no live record has, and the path of the staged file,
\* which is on disk with the uploaded bytes; every other record and every
\* file is left as it was.
C20_CreateAddsOneRecord ==
    [][\A r \in 1..Len(reqs) :
          (/\ reqs[r].kind = "upload"
           /\ reqs[r].pc = "staged" /\ reqs'[r].pc = "done"
           /\ StoredAt(r) = 0)
          => /\ reqs'[r].status = 201
             /\ Len(index') = Len(index) + 1
             /\ \A i \in 1..Len(index) : index'[i] = index[i]
             /\ LET rec == index'[Len(index')]
                IN /\ reqs'[r].item = {rec}
                   /\ rec.hash = generateFileHash(reqs'[r].buffer)
                   /\ rec.id \notin LiveIds(index)
                   /\ rec.path = reqs[r].path
                   /\ rec.path \in DOMAIN disk'
                   /\ disk'[rec.path] = reqs'[r].buffer
             /\ disk' = disk]_vars

\* The step in which an upload is answered with a storage error.
FailsInStorage(r) ==
    /\ reqs'[r].kind = "upload"
    /\ reqs'[r].error \in StorageErrors
    /\ reqs'[r].status # 0
    /\ r > Len(reqs) \/ reqs[r].status = 0

\* C21: an upload whose file write, file read or removal of the replaced
\* file fails is answered with an error (500) and no record, and the step
\* leaves the index as it was; and after every step the file of every live
\* record is in uploads/ and holds the bytes of the record's hash.
C21_StorageFailureLeavesIndex ==
    [][/\ \A r \in 1..Len(reqs') :
            FailsInStorage(r)
            => /\ reqs'[r].status = 500
               /\ reqs'[r].item = {}
               /\ index' = index
       /\ \A i \in 1..Len(index') :
            /\ index'[i].path \in DOMAIN disk'
            /\ generateFileHash(disk'[index'[i].path]) = index'[i].hash]_vars

\* C21's case: with a record live, the read of an upload of the same bytes
\* asking for replace failed; the record is the only one, is what the
\* Created answer returned, and points at its own file.
C21_Witness ==
    \E r1, r2 \in Uploads :
        /\ reqs[r1].status = 201
        /\ reqs[r2].error = "EIO" /\ reqs[r2].status = 500
        /\ reqs[r2].replace = "true" /\ reqs[r2].buffer = reqs[r1].buffer
        /\ index = <<CHOOSE it \in reqs[r1].item : TRUE>>
        /\ index[1].path \in DOMAIN disk

\* The step in which the save() of the replace of upload r is answered after
\* the document it loaded has been deleted.
SavesAfterDelete(r) ==
    /\ reqs[r].kind = "upload"
    /\ reqs[r].pc = "saving" /\ reqs'[r].pc = "done"
    /\ reqs[r].existing # {}
    /\ (CHOOSE e \in reqs[r].existing : TRUE).id \notin LiveIds(index)

\* C22: a replace whose record was deleted between its lookup and its save
\* is answered NotFound (404): it is not answered Replaced, and the deleted
\* record does not come back into the index.
C22_ReplaceAfterDeleteNotFound ==
    [][\A r \in 1..Len(reqs) :
          SavesAfterDelete(r)
          => /\ reqs'[r].status = 404
             /\ index' = index
             /\ (CHOOSE e \in reqs[r].existing : TRUE).id \notin LiveIds(index')]_vars

\* The records a list request was answered with.
Listed(r) == {reqs[r].list[i] : i \in 1..Len(reqs[r].list)}

\* C23: two list() calls with no write completing between them return the
\* same records in the same order, also when records have equal uploadDate.
\* Every completed write changes the set of documents for good (a new id, a
\* new path, or a document gone), so two listings fall under the claim
\* exactly when they returned the same set of records.
C23_ListStable ==
    \A l1, l2 \in Lists :
        Listed(l1) = Listed(l2) => reqs[l1].list = reqs[l2].list

\* C24: list() and get(id) are read-only: the step that answers one leaves
\* the index and the stored bytes as they were, and the answer of list()
\* carries no bytes of any stored file.
C24_ReadsAreReadOnly ==
    [][(AnswersNew("get") \/ AnswersNew("list"))
       => /\ index' = index
          /\ disk' = disk
          /\ \A i \in 1..Len(reqs'[Len(reqs')].list) :
                "data" \notin DOMAIN reqs'[Len(reqs')].list[i]]_vars

\* Some live record's file holds exactly these bytes.
Stored(b) ==
    \E i \in 1..Len(index) :
        index[i].path \in DOMAIN disk /\ disk[index[i].path] = b

\* C25: the outcome class of an upload is decided by its content alone: it
\* is answered Created exactly when no live record holds its bytes, and
\* Duplicate or Replaced exactly when one does, whatever its name, type,
\* description and size and those of the records stored.
C25_OutcomeByContentOnly ==
    [][\A r \in 1..Len(reqs) :
          (reqs[r].kind = "upload" /\ reqs[r].pc = "staged" /\ reqs'[r].pc = "done")
          => /\ reqs'[r].status = 201 <=> ~Stored(reqs'[r].buffer)
             /\ reqs'[r].status \in {200, 409} <=> Stored(reqs'[r].buffer)]_vars

\* C25's case: two uploads with one file name, one type and one size but
\* different bytes were both answered Created, and both records are live.
C25_Witness ==
    \E r1, r2 \in Uploads :
        /\ reqs[r1].buffer # reqs[r2].buffer
        /\ Len(reqs[r1].buffer) = Len(reqs[r2].buffer)
        /\ reqs[r1].originalname = reqs[r2].originalname
        /\ reqs[r1].mimetype = reqs[r2].mimetype
        /\ reqs[r1].status = 201 /\ reqs[r2].status = 201
        /\ Stored(reqs[r1].buffer) /\ Stored(reqs[r2].buffer)

\* The uploads answered Created, and the record each was answered with.
Created == {r \in Uploads : reqs[r].status = 201}
ItemOf(r) == CHOOSE it \in reqs[r].item : TRUE

\* C26: requests that write different records do not undo each other: the
\* live records are as many as the uploads answered Created less the deletes
\* answered success, every live record was created by such an upload, and
\* the bytes of every upload answered Created are held by a live record
\* unless a record with the id it was given has been deleted.
C26_WritesDoNotClobber ==
    /\ Len(index) = Cardinality(Created)
                      - Cardinality({d \in Deletes : reqs[d].status = 200})
    /\ \A i \in 1..Len(index) :
          \E r \in Created : ItemOf(r).hash = index[i].hash
    /\ \A r \in Created :
          Stored(reqs[r].buffer) \/ ItemOf(r).id \in deleted

\* C26's case: two uploads of different content were answered Created with
\* different ids, the second arrived before a delete of the first one's
\* record was answered; the first record is gone and the second is live.
C26_Witness ==
    \E r1, r2 \in Created, d \in Deletes :
        /\ r1 < r2 /\ r2 < d
        /\ reqs[r1].buffer # reqs[r2].buffer
        /\ reqs[d].status = 200
        /\ reqs[d].id = ItemOf(r1).id
        /\ ItemOf(r2).id # ItemOf(r1).id
        /\ ~Stored(reqs[r1].buffer)
        /\ Stored(reqs[r2].buffer)
        /\ Len(index) = 1

C28_OneDeleteSucceeds ==
    \A d1, d2 \in Deletes :
        (/\ d1 # d2
         /\ reqs[d1].id = reqs[d2].id
         /\ reqs[d1].existing # {} /\ reqs[d2].existing # {}
         /\ Answered(d1) /\ Answered(d2))
        => /\ {reqs[d1].status, reqs[d2].status} = {200, 404}
           /\ reqs[d1].id \notin LiveIds(index)
           /\ (CHOOSE e \in reqs[d1].existing : TRUE).path \notin DOMAIN disk

\* C29: a delete(id) answered success removes exactly the record with that
\* id and that record's file: after the step no live record has the id and
\* the file is gone, and every other record and every other file is as it was.
C29_DeleteRemovesExactlyOne ==
    [][(AnswersNew("delete") /\ reqs'[Len(reqs')].status = 200)
       => LET id == reqs'[Len(reqs')].id
              i == findIdIndex(index, id)
          IN /\ i # 0
             /\ id \notin LiveIds(index')
             /\ index[i].path \notin DOMAIN disk'
             /\ Len(index') = Len(index) - 1
             /\ \A j \in 1..Len(index) :
                   j # i => \E k \in 1..Len(index') : index'[k] = index[j]
             /\ DOMAIN disk' = (DOMAIN disk) \ {index[i].path}
             /\ \A p \in DOMAIN disk' : disk'[p] = disk[p]]_vars

\* C30: delete(id) on a live record whose file is already missing is
\* answered success: the step takes that one entry out of the index, keeps
\* every other record, and leaves uploads/ as it was.
C30_DeleteOfDanglingSucceeds ==
    [][AnswersNew("delete")
       => LET id == reqs'[Len(reqs')].id
              i == findIdIndex(index, id)
          IN (i # 0 /\ index[i].path \notin DOMAIN disk)
             => /\ reqs'[Len(reqs')].status = 200
                /\ Len(index') = Len(index) - 1
                /\ \A j \in 1..Len(index') :
                      index'[j] = IF j < i THEN index[j] ELSE index[j + 1]
                /\ disk' = disk]_vars

\* C30's case: a delete died after removing the file, and a later delete of
\* the same id was answered success; no live record has the id, and another
\* record is live with its file.
C30_Witness ==
    \E d1, d2 \in Deletes :
        /\ d1 < d2
        /\ reqs[d1].pc = "crashed"
        /\ reqs[d2].id = reqs[d1].id
        /\ reqs[d2].status = 200
        /\ reqs[d2].id \notin LiveIds(index)
        /\ Len(index) = 1
        /\ index[1].path \in DOMAIN disk

\* C31: an answer of success tells what the index holds from then on: the
\* record of a Created or Replaced answer is live after the step, the record
\* found by a delete answered success is not and one entry less is live,
\* list() answers with the live records, and get(id) answers with the first
\* live record of that id or, when there is none, with 404.
C31_SuccessIsPersisted ==
    [][/\ \A r \in 1..Len(reqs) :
            (AnswersUpload(r, 201) \/ AnswersUpload(r, 200))
            => \E i \in 1..Len(index') : reqs'[r].item = {index'[i]}
       /\ (AnswersNew("delete") /\ reqs'[Len(reqs')].status = 200)
            => LET i == findIdIndex(index, reqs'[Len(reqs')].id)
               IN /\ i # 0
                  /\ Len(index') = Len(index) - 1
                  /\ \A k \in 1..Len(index') : index'[k] # index[i]
       /\ AnswersNew("list") => reqs'[Len(reqs')].list = index
       /\ AnswersNew("get")
            => LET i == findIdIndex(index, reqs'[Len(reqs')].id)
               IN IF i = 0 THEN reqs'[Len(reqs')].status = 404
                  ELSE /\ reqs'[Len(reqs')].status = 200
                       /\ reqs'[Len(reqs')].item = {index[i]}]_vars

\* The step in which an upload that asked for replace, and whose bytes are
\* those of a live record, is answered with an error; where the handler
\* was waiting for save(), it is the save() of the replace branch.
ReplaceFails(r) ==
    /\ reqs[r].kind = "upload"
    /\ reqs[r].status = 0 /\ reqs'[r].status = 500
    /\ reqs'[r].replace = "true"
    /\ StoredAt(r) # 0
    /\ reqs[r].pc = "saving" => reqs[r].existing # {}

\* C32: a replace upload that is answered with an error leaves the store as
\* it was before the request: the index is unchanged, the file of the
\* existing record is on disk, and the staged file of the upload is removed.
C32_FailedReplaceRestores ==
    [][\A r \in 1..Len(reqs) :
          ReplaceFails(r)
          => /\ index' = index
             /\ index[StoredAt(r)].path \in DOMAIN disk'
             /\ reqs[r].path \notin DOMAIN disk']_vars

\* A step in which an upload ends with the server's 'already exists' answer.
EndsInConflict ==
    /\ ui.pc = "uploading" /\ ui'.pc = "idle"
    /\ includesAlreadyExists(ui'.response.error)

\* A step taken from the open dialog: Replace starts a request, Cancel does not.
DialogReplaces == ui.showDuplicateDialog /\ ui'.pc = "replacing"
DialogCancels == ui.showDuplicateDialog /\ ui'.pc = "idle" /\ ~ui'.showDuplicateDialog

C34_TimerStopsWithAttempt ==
    ui.pc = "idle" => (~ui.isUploading /\ ui.intervals = 0)

====
